---- MODULE Spec2Model ----
(***************************************************************************)
(* Model of alphaversearc_bot.py: a Telegram poll bot that awards one      *)
(* point per (poll, user) pair.  The store (two SQLite relations) is       *)
(* persistent; bot_data (the active-poll set) lives in process memory.     *)
(***************************************************************************)
EXTENDS Integers, Sequences, FiniteSets, Bags, TLC

VARIABLES
    user_points,   \* relation user_points: a set of rows [user_id, username, points]
    poll_answers,  \* relation poll_answers: a bag of rows <<poll_id, user_id>>
    bot_data,      \* context.bot_data: a dict, here a function on a subset of {"active_polls"}
    reply,         \* what the last handler handed to the chat transport
    update,        \* the update the last handler was dispatched with
    lost_polls,    \* polls that were active at a restart and not registered since
    handlers,      \* handle_poll_answer coroutines in flight: where each one is
    crashes        \* how many times the process died inside a handler

vars == <<user_points, poll_answers, bot_data, reply, update, lost_polls, handlers, crashes>>

(***************************** bounds **************************************)
MaxUsers == 2
MaxPolls == 2

Users == 1..MaxUsers
Polls == 1..MaxPolls

(************************** configuration **********************************)
POINTS_PER_POLL == 1

\* Python's None, for an absent username
NONE == "None"
Usernames == {NONE, "neo"}
FirstNames == {"Tom"}

(***************************** the store ***********************************)
\* init_db: CREATE TABLE IF NOT EXISTS leaves existing rows alone
EmptyUserPoints == {}
EmptyPollAnswers == EmptyBag

RowsOf(up, uid) == {r \in up : r.user_id = uid}

\* a plain INSERT, with no ON CONFLICT clause: a second row for the user
add_point_no_upsert(up, user_id, username) ==
    IF RowsOf(up, user_id) = {}
    THEN up \cup {[user_id |-> user_id, username |-> username, points |-> POINTS_PER_POLL]}
    ELSE {IF r.user_id = user_id THEN [r EXCEPT !.points = @ + POINTS_PER_POLL] ELSE r
            : r \in up}

\* INSERT ... ON CONFLICT(user_id) DO UPDATE SET points = points + ?, username = excluded.username
add_point(up, user_id, username) ==
    IF RowsOf(up, user_id) = {}
    THEN up \cup {[user_id |-> user_id, username |-> username, points |-> POINTS_PER_POLL]}
    ELSE {IF r.user_id = user_id
          THEN [r EXCEPT !.points = @ + POINTS_PER_POLL, !.username = username]
          ELSE r
            : r \in up}

\* mark_answered without conn.commit(): the INSERT is rolled back on close
mark_answered_not_committed(pa, poll_id, user_id) == pa

\* has_answered that never finds the row
has_answered_never(pa, poll_id, user_id) == FALSE

\* SELECT 1 FROM poll_answers WHERE poll_id = ? AND user_id = ?; bool(fetchone())
has_answered(pa, poll_id, user_id) == BagIn(<<poll_id, user_id>>, pa)

\* INSERT OR IGNORE under UNIQUE(poll_id, user_id)
mark_answered(pa, poll_id, user_id) ==
    IF BagIn(<<poll_id, user_id>>, pa)
    THEN pa
    ELSE pa (+) SetToBag({<<poll_id, user_id>>})

\* score: SELECT points FROM user_points WHERE user_id = ?; row[0] if row else 0
get_points(up, uid) ==
    IF RowsOf(up, uid) = {} THEN 0 ELSE (CHOOSE r \in RowsOf(up, uid) : TRUE).points

(***************************** bot_data ************************************)
EmptyBotData == << >>

\* context.bot_data.get("active_polls", set())
ActivePolls(bd) == IF "active_polls" \in DOMAIN bd THEN bd["active_polls"] ELSE {}

\* lines 112-116: create the set when the key is missing, then add the id
RegisterPoll(bd, pid) == [k \in {"active_polls"} |-> ActivePolls(bd) \cup {pid}]


(************************** answer handling ********************************)
\* a handler that sends nothing
NoReply == [type |-> "none"]
NoUpdate == [kind |-> "none"]

\* poll_answer updates: answer.poll_id, answer.user.{id, username, first_name}
AnswerEvents(polls, users, usernames) ==
    [poll_id : polls, user_id : users, username : usernames, first_name : FirstNames]

\* answer.user.username or answer.user.first_name
DisplayName(ev) == IF ev.username \in {NONE, ""} THEN ev.first_name ELSE ev.username

\* handle_poll_answer with the check of the active set left out
handle_poll_answer_any_poll(up, pa, bd, ev) ==
    IF ~has_answered(pa, ev.poll_id, ev.user_id)
    THEN [up |-> add_point(up, ev.user_id, DisplayName(ev)),
          pa |-> mark_answered(pa, ev.poll_id, ev.user_id)]
    ELSE [up |-> up, pa |-> pa]

\* handle_poll_answer run to completion: the store it leaves
handle_poll_answer(up, pa, bd, ev) ==
    IF ev.poll_id \notin ActivePolls(bd)
    THEN [up |-> up, pa |-> pa]
    ELSE IF ~has_answered(pa, ev.poll_id, ev.user_id)
    THEN [up |-> add_point(up, ev.user_id, DisplayName(ev)),
          pa |-> mark_answered(pa, ev.poll_id, ev.user_id)]
    ELSE [up |-> up, pa |-> pa]

\* the dispatcher hands the same answer event to the handler again
IsRedelivery(ev) == update.kind = "answer" /\ update.ev = ev

HandlePollAnswerFrom(events) ==
    \E ev \in events :
        LET r == handle_poll_answer(user_points, poll_answers, bot_data, ev) IN
        /\ user_points' = r.up
        /\ poll_answers' = r.pa
        /\ reply' = NoReply
        /\ update' = [kind |-> "answer", ev |-> ev, redelivery |-> IsRedelivery(ev)]
        /\ UNCHANGED <<bot_data, lost_polls, handlers, crashes>>

(****************************** createpoll *********************************)
\* Message text is a sequence of one-character strings after the command token.
MaxText == 5
Alphabet == {" ", "?", ";", "a"}
COMMAND == "/createpoll"

RECURSIVE SeqsUpTo(_)
SeqsUpTo(n) ==
    IF n = 0 THEN {<< >>}
    ELSE LET shorter == SeqsUpTo(n - 1) IN
         shorter \cup {Append(s, c) : s \in {t \in shorter : Len(t) = n - 1}, c \in Alphabet}

\* messages the command handler is given: the command, then a space or not,
\* then any text
Messages == {<<COMMAND>> \o sep \o text : sep \in {<< >>, <<" ">>}, text \in SeqsUpTo(MaxText)}

\* the first index of c in s, 0 when there is none (str.find, 1-based)
RECURSIVE FindFrom(_, _, _)
FindFrom(s, c, i) ==
    IF i > Len(s) THEN 0 ELSE IF s[i] = c THEN i ELSE FindFrom(s, c, i + 1)
Find(s, c) == FindFrom(s, c, 1)

Contains(s, c) == Find(s, c) # 0

\* s.partition(c)[2]: what follows the first c, empty when there is none
PartitionTail(s, c) ==
    IF Find(s, c) = 0 THEN << >> ELSE SubSeq(s, Find(s, c) + 1, Len(s))

\* s.split(c, 1) for an s that contains c: <<before, after>>
SplitOnce(s, c) ==
    <<SubSeq(s, 1, Find(s, c) - 1), SubSeq(s, Find(s, c) + 1, Len(s))>>

\* s.split(c): the segments between the separators, empty ones included
RECURSIVE Split(_, _)
Split(s, c) ==
    IF Find(s, c) = 0 THEN <<s>>
    ELSE <<SubSeq(s, 1, Find(s, c) - 1)>> \o Split(SubSeq(s, Find(s, c) + 1, Len(s)), c)

RECURSIVE LStrip(_)
LStrip(s) == IF s # << >> /\ Head(s) = " " THEN LStrip(Tail(s)) ELSE s
RECURSIVE RStrip(_)
RStrip(s) ==
    IF s # << >> /\ s[Len(s)] = " " THEN RStrip(SubSeq(s, 1, Len(s) - 1)) ELSE s
\* str.strip()
Strip(s) == RStrip(LStrip(s))

\* [opt.strip() for opt in opts.split(";") if opt.strip()]
RECURSIVE StrippedNonEmpty(_)
StrippedNonEmpty(segs) ==
    IF segs = << >> THEN << >>
    ELSE IF Strip(Head(segs)) # << >>
    THEN <<Strip(Head(segs))>> \o StrippedNonEmpty(Tail(segs))
    ELSE StrippedNonEmpty(Tail(segs))

\* question, opts = text.split("?", 1)
Question(text) == SplitOnce(text, "?")[1]
Options(text) == StrippedNonEmpty(Split(SplitOnce(text, "?")[2], ";"))

\* what the transport does with reply_poll: it returns a poll id, or raises
RAISES == 0
TransportOutcomes(polls) == polls \cup {RAISES}

\* createpoll run to completion for message msg, the transport answering `outcome`
createpoll(bd, msg, outcome) ==
    LET text == PartitionTail(msg, " ") IN
    IF ~Contains(text, "?") \/ ~Contains(text, ";")
    THEN [bd |-> bd, reply |-> [type |-> "text", text |-> "usage"]]
    ELSE IF Len(Options(text)) < 2
    THEN [bd |-> bd, reply |-> [type |-> "text", text |-> "two_options"]]
    ELSE LET poll == [type |-> "poll",
                      question |-> Strip(Question(text)) \o <<"?">>,
                      options |-> Options(text)] IN
         IF outcome = RAISES
         THEN [bd |-> bd, reply |-> poll]
         ELSE [bd |-> RegisterPoll(bd, outcome), reply |-> poll]

\* what the handler does to the program: bot_data and the message sent
CreatePollEffect(msg, outcome) ==
    LET r == createpoll(bot_data, msg, outcome) IN
    /\ bot_data' = r.bd
    /\ reply' = r.reply
    /\ UNCHANGED <<user_points, poll_answers>>

CreatePollFrom(messages, polls) ==
    \E msg \in messages, outcome \in TransportOutcomes(polls) :
        /\ CreatePollEffect(msg, outcome)
        /\ update' = [kind |-> "createpoll", msg |-> msg, outcome |-> outcome]
        /\ lost_polls' = lost_polls \ ActivePolls(bot_data')
        /\ UNCHANGED <<handlers, crashes>>

(******************************* restart ***********************************)
\* a restart that finds bot_data as the old process left it
RestartKeepsBotData ==
    /\ bot_data' = bot_data
    /\ reply' = NoReply
    /\ update' = [kind |-> "restart"]
    /\ lost_polls' = lost_polls \cup ActivePolls(bot_data)
    /\ UNCHANGED <<user_points, poll_answers, handlers, crashes>>

\* main in a new process: init_db keeps the rows, bot_data starts empty
Restart ==
    /\ bot_data' = EmptyBotData
    /\ reply' = NoReply
    /\ update' = [kind |-> "restart"]
    /\ lost_polls' = lost_polls \cup ActivePolls(bot_data)
    /\ UNCHANGED <<user_points, poll_answers, handlers, crashes>>

(*************************** the bot, one update at a time *****************)
Idle == [pc |-> "idle", poll_id |-> 0, user_id |-> 0, name |-> ""]

InitStore ==
    /\ user_points = EmptyUserPoints
    /\ poll_answers = EmptyPollAnswers

InitProcess ==
    /\ bot_data = EmptyBotData
    /\ reply = NoReply
    /\ update = NoUpdate
    /\ lost_polls = {}
    /\ handlers = << >>
    /\ crashes = 0

Init == InitStore /\ InitProcess

\* a message with no arguments, and one with a question and two options
SampleMessages ==
    {<<COMMAND>>,
     <<COMMAND, " ", "a", "?", "a", ";", "a">>}

CreatePoll == CreatePollFrom(SampleMessages, Polls)
\* answers of users without a username: the stored name is the first name
\* (SpecStore runs add_point with both kinds of name)
HandlePollAnswer == HandlePollAnswerFrom(AnswerEvents(Polls, Users, {NONE}))

Next ==
    \/ CreatePoll
    \/ HandlePollAnswer
    \/ Restart

Spec == Init /\ [][Next]_vars
(*************************** createpoll on any text ************************)
\* bot_data as createpoll and main can leave it
BotDataStates == {EmptyBotData} \cup {RegisterPoll(EmptyBotData, p) : p \in Polls}
                   \cup {RegisterPoll(RegisterPoll(EmptyBotData, p), q) : p, q \in Polls}

\* a createpoll update waits in the dispatcher's queue
InitCreate ==
    /\ InitStore
    /\ bot_data \in BotDataStates
    /\ reply = NoReply
    /\ update \in [kind : {"queued"}, msg : Messages]
    /\ lost_polls = {}
    /\ handlers = << >>
    /\ crashes = 0

CreatePollQueued ==
    /\ update.kind = "queued"
    /\ \E outcome \in TransportOutcomes(Polls) :
        /\ CreatePollEffect(update.msg, outcome)
        /\ update' = [kind |-> "createpoll", msg |-> update.msg, outcome |-> outcome]
        /\ UNCHANGED <<lost_polls, handlers, crashes>>

NextCreate == CreatePollQueued

SpecCreate == InitCreate /\ [][NextCreate]_vars

(******************** handle_poll_answer, one store call at a time *********)
\* the handler that awards the point before it marks the pair
StoreCallsAwardFirst == <<"add_point", "mark_answered">>

\* lines 131-132: the store calls of an answer not seen before, in order
StoreCalls == <<"mark_answered", "add_point">>

\* where a handler stands once the store call `call` has returned
AfterCall(call) == IF call = StoreCalls[1] THEN StoreCalls[2] ELSE "idle"

\* lines 120-127: read the update, return when the poll is not active
Dispatch(h, events) ==
    \E ev \in events :
        /\ handlers[h].pc = "idle"
        /\ handlers' =
             IF ev.poll_id \notin ActivePolls(bot_data)
             THEN handlers
             ELSE [handlers EXCEPT ![h] = [pc |-> "has_answered", poll_id |-> ev.poll_id,
                                           user_id |-> ev.user_id, name |-> DisplayName(ev)]]
        /\ UNCHANGED <<user_points, poll_answers, bot_data, reply, update, lost_polls, crashes>>

\* line 130: the membership test decides between lines 131 and 135
HasAnswered(h) ==
    /\ handlers[h].pc = "has_answered"
    /\ handlers' =
         IF has_answered(poll_answers, handlers[h].poll_id, handlers[h].user_id)
         THEN [handlers EXCEPT ![h] = Idle]
         ELSE [handlers EXCEPT ![h].pc = StoreCalls[1]]
    /\ UNCHANGED <<user_points, poll_answers, bot_data, reply, update, lost_polls, crashes>>

\* line 131
MarkAnswered(h) ==
    /\ handlers[h].pc = "mark_answered"
    /\ poll_answers' = mark_answered(poll_answers, handlers[h].poll_id, handlers[h].user_id)
    /\ handlers' = [handlers EXCEPT ![h] =
                        IF AfterCall("mark_answered") = "idle" THEN Idle
                        ELSE [@ EXCEPT !.pc = AfterCall("mark_answered")]]
    /\ UNCHANGED <<user_points, bot_data, reply, update, lost_polls, crashes>>

\* lines 132-133
AddPoint(h) ==
    /\ handlers[h].pc = "add_point"
    /\ user_points' = add_point(user_points, handlers[h].user_id, handlers[h].name)
    /\ handlers' = [handlers EXCEPT ![h] =
                        IF AfterCall("add_point") = "idle" THEN Idle
                        ELSE [@ EXCEPT !.pc = AfterCall("add_point")]]
    /\ UNCHANGED <<poll_answers, bot_data, reply, update, lost_polls, crashes>>

\* createpoll between the steps of the answer handlers
StepCreatePoll(polls) ==
    \E msg \in SampleMessages, outcome \in TransportOutcomes(polls) :
        /\ CreatePollEffect(msg, outcome)
        /\ UNCHANGED <<update, lost_polls, handlers, crashes>>

(************************ two handlers interleaved *************************)
ConcHandlers == {1, 2}

InitConc ==
    /\ InitStore
    /\ bot_data = EmptyBotData
    /\ reply = NoReply
    /\ update = NoUpdate
    /\ lost_polls = {}
    /\ handlers = [h \in ConcHandlers |-> Idle]
    /\ crashes = 0

ConcEvents == AnswerEvents(Polls, Users, {NONE})

NextConc ==
    \/ StepCreatePoll(Polls)
    \/ \E h \in ConcHandlers : Dispatch(h, ConcEvents)
    \/ \E h \in ConcHandlers : HasAnswered(h)
    \/ \E h \in ConcHandlers : MarkAnswered(h)
    \/ \E h \in ConcHandlers : AddPoint(h)

SpecConc == InitConc /\ [][NextConc]_vars

(******************** one handler, and a process that can die **************)
MaxCrashes == 2
CrashUsers == 2
CrashPolls == 1
CrashHandlers == {1}

InitCrash ==
    /\ InitStore
    /\ bot_data = EmptyBotData
    /\ reply = NoReply
    /\ update = NoUpdate
    /\ lost_polls = {}
    /\ handlers = [h \in CrashHandlers |-> Idle]
    /\ crashes = 0

\* the process dies: the handler in flight and bot_data go, the store stays;
\* main then starts a new process
Crash ==
    /\ crashes < MaxCrashes
    /\ crashes' = crashes + 1
    /\ handlers' = [h \in CrashHandlers |-> Idle]
    /\ bot_data' = EmptyBotData
    /\ reply' = NoReply
    /\ UNCHANGED <<user_points, poll_answers, update, lost_polls>>

CrashEvents == AnswerEvents(1..CrashPolls, 1..CrashUsers, {NONE})

NextCrash ==
    \/ StepCreatePoll(1..CrashPolls)
    \/ \E h \in CrashHandlers : Dispatch(h, CrashEvents)
    \/ \E h \in CrashHandlers : HasAnswered(h)
    \/ \E h \in CrashHandlers : MarkAnswered(h)
    \/ \E h \in CrashHandlers : AddPoint(h)
    \/ Crash

SpecCrash == InitCrash /\ [][NextCrash]_vars

(***************************** add_point alone *****************************)
MaxAwards == 4

\* add_point is called with the display name of an answer event
StoreAddPoint ==
    \E ev \in AnswerEvents({1}, Users, Usernames) :
        /\ get_points(user_points, ev.user_id) < MaxAwards * POINTS_PER_POLL
        /\ user_points' = add_point(user_points, ev.user_id, DisplayName(ev))
        /\ update' = [kind |-> "add_point", user_id |-> ev.user_id, username |-> DisplayName(ev)]
        /\ UNCHANGED <<poll_answers, bot_data, reply, lost_polls, handlers, crashes>>

NextStore == StoreAddPoint

SpecStore == Init /\ [][NextStore]_vars

(******************************* the queries *******************************)
LEADERBOARD_LIMIT == 10

Min(a, b) == IF a <= b THEN a ELSE b

\* a table scan: user_id is the INTEGER PRIMARY KEY, so rows come by user_id
RECURSIVE ScanOrder(_)
ScanOrder(up) ==
    IF up = {} THEN << >>
    ELSE LET r == CHOOSE x \in up : \A y \in up : x.user_id <= y.user_id IN
         <<r>> \o ScanOrder(up \ {r})

\* ORDER BY points DESC: r goes behind every row with at least its points
RECURSIVE InsertDesc(_, _)
InsertDesc(sorted, r) ==
    IF sorted = << >> THEN <<r>>
    ELSE IF Head(sorted).points >= r.points
    THEN <<Head(sorted)>> \o InsertDesc(Tail(sorted), r)
    ELSE <<r>> \o sorted

\* ORDER BY points ASC
RECURSIVE InsertAsc(_, _)
InsertAsc(sorted, r) ==
    IF sorted = << >> THEN <<r>>
    ELSE IF Head(sorted).points <= r.points
    THEN <<Head(sorted)>> \o InsertAsc(Tail(sorted), r)
    ELSE <<r>> \o sorted

RECURSIVE OrderByPointsAsc(_)
OrderByPointsAsc(rows) ==
    IF rows = << >> THEN << >>
    ELSE InsertAsc(OrderByPointsAsc(SubSeq(rows, 1, Len(rows) - 1)), rows[Len(rows)])

RECURSIVE OrderByPointsDesc(_)
OrderByPointsDesc(rows) ==
    IF rows = << >> THEN << >>
    ELSE InsertDesc(OrderByPointsDesc(SubSeq(rows, 1, Len(rows) - 1)), rows[Len(rows)])

\* the leaderboard query with ORDER BY points ASC
top_rows_ascending(up) ==
    LET rows == OrderByPointsAsc(ScanOrder(up)) IN
    [i \in 1..Min(LEADERBOARD_LIMIT, Len(rows)) |-> <<rows[i].username, rows[i].points>>]

\* SELECT username, points FROM user_points ORDER BY points DESC LIMIT 10
top_rows(up) ==
    LET rows == OrderByPointsDesc(ScanOrder(up)) IN
    [i \in 1..Min(LEADERBOARD_LIMIT, Len(rows)) |-> <<rows[i].username, rows[i].points>>]

\* the whitelist query with WHERE points > ?
above_threshold_strict(up, threshold) ==
    LET rows == OrderByPointsDesc(ScanOrder({r \in up : r.points > threshold})) IN
    [i \in 1..Len(rows) |-> <<rows[i].user_id, rows[i].username>>]

\* SELECT user_id, username FROM user_points WHERE points >= ? ORDER BY points DESC
above_threshold(up, threshold) ==
    LET rows == OrderByPointsDesc(ScanOrder({r \in up : r.points >= threshold})) IN
    [i \in 1..Len(rows) |-> <<rows[i].user_id, rows[i].username>>]

\* int(): an optional sign, then decimal digits; anything else is a ValueError
Digits == <<"0", "1", "2", "3", "4", "5", "6", "7", "8", "9">>
IsDigit(c) == \E d \in 1..Len(Digits) : Digits[d] = c
DigitValue(c) == (CHOOSE d \in 1..Len(Digits) : Digits[d] = c) - 1

RECURSIVE DecimalValue(_)
DecimalValue(ds) ==
    IF ds = << >> THEN 0 ELSE 10 * DecimalValue(SubSeq(ds, 1, Len(ds) - 1)) + DigitValue(ds[Len(ds)])

IsInt(tok) ==
    LET ds == IF tok # << >> /\ Head(tok) \in {"-", "+"} THEN Tail(tok) ELSE tok IN
    ds # << >> /\ \A i \in 1..Len(ds) : IsDigit(ds[i])

IntValue(tok) ==
    IF Head(tok) = "-" THEN 0 - DecimalValue(Tail(tok))
    ELSE IF Head(tok) = "+" THEN DecimalValue(Tail(tok))
    ELSE DecimalValue(tok)

\* score: the reply carries get_points
score(up, uid) == [type |-> "text", text |-> "score", points |-> get_points(up, uid)]

\* leaderboard: "No scores yet." or the top rows
leaderboard(up) ==
    IF top_rows(up) = << >>
    THEN [type |-> "text", text |-> "no_scores", rows |-> << >>]
    ELSE [type |-> "text", text |-> "top", rows |-> top_rows(up)]

\* whitelist: IndexError and ValueError give the usage message
whitelist(up, args) ==
    IF args = << >> \/ ~IsInt(args[1])
    THEN [type |-> "text", text |-> "usage", rows |-> << >>]
    ELSE LET rows == above_threshold(up, IntValue(args[1])) IN
         IF rows = << >>
         THEN [type |-> "text", text |-> "none_meet", rows |-> << >>]
         ELSE [type |-> "html", text |-> "whitelisted", rows |-> rows]

\* tables the bot can have built: some users with any score, and a crowd of
\* users whose scores run 1, 2, ..., MaxScore, 1, ...; ids interleave
MaxFree == 2
MaxCrowd == 10
MaxScore == 3

FreeId(u) == 2 * u - 1
CrowdId(k) == 2 * k
CrowdPoints(k) == 1 + ((k - 1) % MaxScore)

Tables ==
    {   {[user_id |-> FreeId(u), username |-> "neo", points |-> f[u]]
            : u \in {x \in 1..MaxFree : f[x] > 0}}
        \cup
        {[user_id |-> CrowdId(k), username |-> "Tom", points |-> CrowdPoints(k)]
            : k \in 1..c}
      : f \in [1..MaxFree -> 0..MaxScore], c \in 0..MaxCrowd }

\* context.args of the whitelist commands tried
SampleArgs ==
    {<< >>, <<<<"x">>>>, <<<<"-">>>>, <<<<"-", "1">>>>, <<<<"0">>>>, <<<<"1">>>>,
     <<<<"2">>>>, <<<<"+", "3">>>>, <<<<"1", "0">>>>, <<<<"2">>, <<"x">>>>}

Queries ==
    {[kind |-> "queued", cmd |-> "leaderboard", args |-> << >>, user_id |-> 0]}
    \cup {[kind |-> "queued", cmd |-> "whitelist", args |-> a, user_id |-> 0] : a \in SampleArgs}
    \cup {[kind |-> "queued", cmd |-> "score", args |-> << >>, user_id |-> u]
            : u \in 1..(2 * MaxFree)}

InitQuery ==
    /\ user_points \in Tables
    /\ poll_answers = EmptyPollAnswers
    /\ bot_data = EmptyBotData
    /\ reply = NoReply
    /\ update \in Queries
    /\ lost_polls = {}
    /\ handlers = << >>
    /\ crashes = 0

Answered(r) ==
    /\ reply' = r
    /\ update' = [update EXCEPT !.kind = "done"]
    /\ UNCHANGED <<user_points, poll_answers, bot_data, lost_polls, handlers, crashes>>

Score ==
    /\ update.kind = "queued" /\ update.cmd = "score"
    /\ Answered(score(user_points, update.user_id))

Leaderboard ==
    /\ update.kind = "queued" /\ update.cmd = "leaderboard"
    /\ Answered(leaderboard(user_points))

Whitelist ==
    /\ update.kind = "queued" /\ update.cmd = "whitelist"
    /\ Answered(whitelist(user_points, update.args))

NextQuery ==
    \/ Score
    \/ Leaderboard
    \/ Whitelist

SpecQuery == InitQuery /\ [][NextQuery]_vars

(***************************** properties **********************************)
\* the polls for which poll_answers holds a record (p, u)
CreditedPolls(u) == {row[1] : row \in {x \in BagToSet(poll_answers) : x[2] = u}}

\* C1: with every update handled to completion, each user's points (0 when
\* the user has no row) are POINTS_PER_POLL times the number of distinct polls
\* for which poll_answers holds a record of that user.
C1_PointsMatchCreditedPolls ==
    \A u \in Users :
        get_points(user_points, u) = POINTS_PER_POLL * Cardinality(CreditedPolls(u))

\* one user credited for two polls while another is credited for one
C1_Witness ==
    \E u, v \in Users :
        /\ Cardinality(CreditedPolls(u)) = 2 /\ get_points(user_points, u) = 2 * POINTS_PER_POLL
        /\ Cardinality(CreditedPolls(v)) = 1 /\ get_points(user_points, v) = POINTS_PER_POLL

\* C2: handling the same answer event a second time changes neither relation
\* of the store nor the active set, so the two runs together leave what one
\* run leaves and the points rise at most once.
C2_RedeliveryChangesNothing ==
    [][(update'.kind = "answer" /\ update'.redelivery)
         => UNCHANGED <<user_points, poll_answers, bot_data>>]_vars

\* a user answered a registered poll twice and has one point
C2_Witness ==
    /\ update.kind = "answer"
    /\ update.redelivery
    /\ update.ev.poll_id \in ActivePolls(bot_data)
    /\ CreditedPolls(update.ev.user_id) = {update.ev.poll_id}
    /\ get_points(user_points, update.ev.user_id) = POINTS_PER_POLL

\* C3: an answer event for a poll that is not in the active set leaves both
\* relations of the store and the active set as they were.
C3_UnknownPollChangesNothing ==
    [][(update'.kind = "answer" /\ update'.ev.poll_id \notin ActivePolls(bot_data))
         => UNCHANGED <<user_points, poll_answers, bot_data>>]_vars

\* an answer to an unregistered poll was handled while another poll is active
\* and the store holds points: the user still has none
C3_Witness ==
    /\ update.kind = "answer"
    /\ update.ev.poll_id \notin ActivePolls(bot_data)
    /\ ActivePolls(bot_data) # {}
    /\ user_points # {}
    /\ get_points(user_points, update.ev.user_id) = 0

\* C9: a restart empties the active set and keeps the store; from then on an
\* answer event for a poll that was active at a restart is ignored, whoever
\* the user is, until createpoll registers that identifier again.
C9_RestartLosesActivePolls ==
    [][/\ update'.kind = "restart"
          => (ActivePolls(bot_data') = {} /\ UNCHANGED <<user_points, poll_answers>>)
       /\ (update'.kind = "answer" /\ update'.ev.poll_id \in lost_polls)
          => UNCHANGED <<user_points, poll_answers>>]_vars

\* after a restart a user who never answered the lost poll answers it and is
\* not credited, while the points written before the restart are still there
C9_Witness ==
    /\ update.kind = "answer"
    /\ update.ev.poll_id \in lost_polls
    /\ ~BagIn(<<update.ev.poll_id, update.ev.user_id>>, poll_answers)
    /\ \E u \in Users : BagIn(<<update.ev.poll_id, u>>, poll_answers)
                        /\ get_points(user_points, u) >= POINTS_PER_POLL

\* the text after the command, read as "Question? Option1;Option2": it has a
\* non-empty question and at least two options that are non-empty when trimmed
WellFormed(msg) ==
    LET text == PartitionTail(msg, " ") IN
    /\ Contains(text, "?")
    /\ Strip(Question(text)) # << >>
    /\ Len(Options(text)) >= 2

\* C8: createpoll requests a poll and registers its identifier only when the
\* question is non-empty and at least two options are non-empty after
\* trimming; for every other input it answers with a text message, requests
\* no poll and leaves the active set and the store alone.  For a valid input
\* the identifier the transport returns is in the active set afterwards.
C8_CreatePollValidates ==
    [][update'.kind = "createpoll" =>
         IF WellFormed(update'.msg)
         THEN /\ reply'.type = "poll"
              /\ update'.outcome # RAISES => update'.outcome \in ActivePolls(bot_data')
         ELSE /\ reply'.type = "text"
              /\ UNCHANGED <<bot_data, user_points, poll_answers>>]_vars

(**************** properties of the handlers taken step by step ************)
InFlight == {h \in DOMAIN handlers : handlers[h].pc # "idle"}

\* the total of what the credited records promise and the rows do not hold
RECURSIVE Shortfall(_)
Shortfall(users) ==
    IF users = {} THEN 0
    ELSE LET u == CHOOSE x \in users : TRUE IN
         (POINTS_PER_POLL * Cardinality(CreditedPolls(u)) - get_points(user_points, u))
           + Shortfall(users \ {u})

C5_ShortfallBoundedByCrashes ==
    /\ \A u \in 1..CrashUsers :
           get_points(user_points, u) <= POINTS_PER_POLL * Cardinality(CreditedPolls(u))
    /\ Shortfall(1..CrashUsers) <= POINTS_PER_POLL * crashes

\* handlers that have marked their pair and not yet awarded the point
Awarding == {h \in DOMAIN handlers : handlers[h].pc = "add_point"}

\* C5 amended: no user ever holds more points than the credited records
\* account for, and the points missing over all users are at most the award
\* times the number of crashes so far plus the handler, if any, that stands
\* between mark_answered and add_point.
C5_CrashLosesAtMostOnePoint ==
    /\ \A u \in 1..CrashUsers :
           get_points(user_points, u) <= POINTS_PER_POLL * Cardinality(CreditedPolls(u))
    /\ Shortfall(1..CrashUsers) <= POINTS_PER_POLL * (crashes + Cardinality(Awarding))

\* the process died twice between mark_answered and add_point, each crash
\* cost one point, and the handler is idle again
C5_Witness ==
    /\ crashes = 2
    /\ Shortfall(1..CrashUsers) = 2 * POINTS_PER_POLL
    /\ InFlight = {}

(************************** properties of the store ************************)
\* C10: add_point(user_id, name) is an upsert keyed by user_id.  With no row
\* for the user it creates one with points = POINTS_PER_POLL and the given
\* name; with a row it adds POINTS_PER_POLL to points and overwrites the name.
\* Either way each user has at most one row, the user's points do not
\* decrease, and every other user's row is as before.
C10_AddPointIsUpsert ==
    [][update'.kind = "add_point" =>
         LET u == update'.user_id
             n == update'.username
             before == RowsOf(user_points, u)
             after == RowsOf(user_points', u)
         IN  /\ before = {} =>
                   after = {[user_id |-> u, username |-> n, points |-> POINTS_PER_POLL]}
             /\ before # {} =>
                   after = {[user_id |-> u, username |-> n,
                             points |-> r.points + POINTS_PER_POLL] : r \in before}
             /\ \A v \in Users : Cardinality(RowsOf(user_points', v)) <= 1
             /\ get_points(user_points', u) >= get_points(user_points, u)
             /\ user_points' \ after = user_points \ before]_vars

\* add_point met a row: the user has two awards under the name just given,
\* and another user's row keeps a different name
C10_Witness ==
    /\ update.kind = "add_point"
    /\ \E r \in user_points :
           /\ r.user_id = update.user_id
           /\ r.points = 2 * POINTS_PER_POLL
           /\ r.username = update.username
    /\ \E r \in user_points : r.user_id # update.user_id /\ r.username # update.username

(************************** properties of the queries **********************)
RowPoints == [i \in 1..Len(reply.rows) |-> get_points(user_points, reply.rows[i][1])]

\* C6: for an integer threshold t the whitelist query returns exactly the
\* users with points >= t, each once, with their names, ordered by points
\* descending (so t = 0 gives every user with a row, and a t above every
\* score gives nothing).
C6_WhitelistExact ==
    (update.kind = "done" /\ update.cmd = "whitelist"
       /\ update.args # << >> /\ IsInt(update.args[1])) =>
        LET t == IntValue(update.args[1])
            rows == reply.rows
        IN  /\ {rows[i] : i \in 1..Len(rows)}
                 = {<<r.user_id, r.username>> : r \in {x \in user_points : x.points >= t}}
            /\ \A i, j \in 1..Len(rows) : i # j => rows[i][1] # rows[j][1]
            /\ \A i, j \in 1..Len(rows) : i < j => RowPoints[i] >= RowPoints[j]
            /\ t = 0 => Len(rows) = Cardinality(user_points)
            /\ (\A r \in user_points : r.points < t) => rows = << >>

\* users 1, 2, 3 hold 3, 1, 2 points and /whitelist 2 answers user 1, then user 3
C6_Witness ==
    /\ update.kind = "done" /\ update.cmd = "whitelist" /\ update.args = <<<<"2">>>>
    /\ {<<r.user_id, r.points>> : r \in user_points} = {<<1, 3>>, <<2, 1>>, <<3, 2>>}
    /\ reply.rows = <<<<1, "neo">>, <<3, "neo">>>>

\* the points of the rows the leaderboard shows, and of all rows, as bags
RECURSIVE BagOfPoints(_)
BagOfPoints(rows) ==
    IF rows = << >> THEN EmptyBag
    ELSE SetToBag({Head(rows)[2]}) (+) BagOfPoints(Tail(rows))

TablePoints == BagOfPoints([i \in 1..Cardinality(user_points) |->
                               <<0, ScanOrder(user_points)[i].points>>])

\* C7: the leaderboard query returns min(10, number of rows) entries, ordered
\* by points descending, each a row of the table, and no row left out has
\* more points than a row shown.
C7_LeaderboardTopTen ==
    (update.kind = "done" /\ update.cmd = "leaderboard") =>
        LET rows == reply.rows
            shown == BagOfPoints(rows)
            left == TablePoints (-) shown
        IN  /\ Len(rows) = Min(LEADERBOARD_LIMIT, Cardinality(user_points))
            /\ \A i, j \in 1..Len(rows) : i < j => rows[i][2] >= rows[j][2]
            /\ \A i \in 1..Len(rows) :
                   \E r \in user_points : r.username = rows[i][1] /\ r.points = rows[i][2]
            /\ shown \sqsubseteq TablePoints
            /\ \A p \in BagToSet(left), q \in BagToSet(shown) : p <= q

\* twelve users have a row and ten are shown, from the top score down to a
\* user with one point; the two left out have one point each
C7_Witness ==
    /\ update.kind = "done" /\ update.cmd = "leaderboard"
    /\ Cardinality(user_points) = LEADERBOARD_LIMIT + 2
    /\ Len(reply.rows) = LEADERBOARD_LIMIT
    /\ reply.rows[1][2] = MaxScore
    /\ reply.rows[LEADERBOARD_LIMIT][2] = 1
    /\ BagToSet(TablePoints (-) BagOfPoints(reply.rows)) = {1}
====
